---- MODULE Spec2Model ----
(***************************************************************************)
(* A model of django-crm's crm/models.py and crm/forms.py: the login       *)
(* registration workflow (activate, prepare_email, has_expired), the slug  *)
(* assignment of RelationshipType.save, the unique (from_contact,          *)
(* to_contact) pair of ContactRelationship, PersonForm.clean_email and     *)
(* EmailForm (clean_to and the recipient choices).                         *)
(*                                                                         *)
(* Text values (names, slugs, usernames, e-mail addresses) are sequences   *)
(* of one-character strings, so that slugify and the collision suffix are  *)
(* computed on characters.  Date-times are integer clock ticks.            *)
(***************************************************************************)
EXTENDS Integers, Sequences, FiniteSets, TLC

VARIABLES
    now,                    \* datetime.datetime.now(), in ticks
    settings,               \* django.conf.settings: the configured attributes
    contacts,               \* Contact rows, by id
    users,                  \* auth User rows; the id of a row is its index
    registrations,          \* LoginRegistration rows, by id
    outbox,                 \* the messages handed to send_mail, in order
    relationshipTypes,      \* RelationshipType rows; the id is the index
    contactRelationships,   \* ContactRelationship rows; the id is the index
    memberships,            \* the users of each project and of each business
    call                    \* the last call made, its arguments and outcome

vars == <<now, settings, contacts, users, registrations, outbox,
          relationshipTypes, contactRelationships, memberships, call>>

----------------------------------------------------------------------------
(* Bounds of the model                                                     *)

TicksPerDay == 2        \* clock resolution: ticks in one day
MaxNow == 4             \* the clock stops advancing at this tick (Spec)
MaxClockDays == 17      \* days the clock runs for in SpecExpiry
MaxUsers == 3           \* accounts that may exist
MaxMail == 1            \* messages that may be handed to send_mail
MaxTypes == 3           \* RelationshipType rows that may exist
MaxRelationships == 3   \* ContactRelationship rows that may exist

----------------------------------------------------------------------------
(* Text                                                                    *)

LowerLetters == {"a", "b", "j", "x"}
UpperLetters == {"A", "B", "J", "X"}
DigitChars == <<"0", "1", "2", "3", "4", "5", "6", "7", "8", "9">>
Digits == {DigitChars[i] : i \in 1..Len(DigitChars)}
WhiteSpace == {" "}

\* str.lower() on one character
LowerChar(c) ==
    CASE c = "A" -> "a"
      [] c = "B" -> "b"
      [] c = "J" -> "j"
      [] c = "X" -> "x"
      [] OTHER -> c

\* str.lower()
Lower(s) == [i \in 1..Len(s) |-> LowerChar(s[i])]

\* str.strip(): leading and trailing whitespace removed
RECURSIVE LStrip(_)
LStrip(s) ==
    IF s # <<>> /\ Head(s) \in WhiteSpace THEN LStrip(Tail(s)) ELSE s

RECURSIVE RStrip(_)
RStrip(s) ==
    IF s # <<>> /\ s[Len(s)] \in WhiteSpace
    THEN RStrip(SubSeq(s, 1, Len(s) - 1))
    ELSE s

Strip(s) == RStrip(LStrip(s))

\* True when prefix starts s (the ORM's __startswith lookup)
StartsWith(s, prefix) ==
    /\ Len(prefix) <= Len(s)
    /\ SubSeq(s, 1, Len(prefix)) = prefix

\* "%d" % i for i >= 0
RECURSIVE Decimal(_)
Decimal(i) ==
    IF i < 10 THEN <<DigitChars[i + 1]>>
    ELSE Decimal(i \div 10) \o <<DigitChars[(i % 10) + 1]>>

\* re.sub('[^\w\s-]', '', value): only word characters, whitespace and
\* hyphens are kept
WordChars == LowerLetters \cup UpperLetters \cup Digits \cup {"_"}
KeepSlugChars(s) ==
    SelectSeq(s, LAMBDA c : c \in WordChars \cup WhiteSpace \cup {"-"})

\* re.sub('[-\s]+', '-', value): each run of hyphens and whitespace becomes
\* one hyphen
RECURSIVE CollapseSeparators(_)
CollapseSeparators(s) ==
    IF s = <<>> THEN <<>>
    ELSE IF Head(s) \in WhiteSpace \cup {"-"}
         THEN IF Tail(s) # <<>> /\ Head(Tail(s)) \in WhiteSpace \cup {"-"}
              THEN CollapseSeparators(Tail(s))
              ELSE <<"-">> \o CollapseSeparators(Tail(s))
         ELSE <<Head(s)>> \o CollapseSeparators(Tail(s))

\* django.template.defaultfilters.slugify
slugify(s) == CollapseSeparators(Lower(Strip(KeepSlugChars(s))))

\* The while loop of slugify_uniquely: the first of base, base1, base2, ...
\* that is not among the similar slugs
RECURSIVE FirstFreeSlug(_, _, _, _)
FirstFreeSlug(new_slug, new_slug_base, similar_slugs, i) ==
    IF new_slug \in similar_slugs
    THEN FirstFreeSlug(new_slug_base \o Decimal(i), new_slug_base,
                       similar_slugs, i + 1)
    ELSE new_slug

\* caktus.django.db.util.slugify_uniquely(s, queryset, field), the queryset
\* given as the set of its rows' values of the field
slugify_uniquely(s, queryset) ==
    LET new_slug_base == slugify(s)
        similar_slugs == {v \in queryset : StartsWith(v, new_slug_base)}
    IN  IF queryset # {}
        THEN FirstFreeSlug(new_slug_base, new_slug_base, similar_slugs, 1)
        ELSE new_slug_base

----------------------------------------------------------------------------
(* RelationshipType                                                        *)

\* Names given to RelationshipType rows
TypeNames ==
    { <<"a">>, <<"A">>, <<"a", " ">>, <<"a", "1">>, <<"a", "!">>, <<"!">> }

\* The call made before any call
NoCall == [op |-> "none"]

\* Values of field f over the rows of table that are not row id
OtherValues(table, id, f) ==
    {table[i][f] : i \in DOMAIN table \ {id}}

\* The slug of a saved RelationshipType when the name is only slugified
RelationshipType_slug_not_uniquified(id, name) == slugify(name)

\* The slug RelationshipType.save() assigns to the instance with the given
\* id (0: a new instance, not yet stored): the queryset is every row, the
\* instance's own row excluded when it has an id
RelationshipType_slug(id, name) ==
    slugify_uniquely(name, OtherValues(relationshipTypes, id, "slug"))

\* RelationshipType.save() on the instance with the given id and name.
\* super().save() inserts or updates the row; the database rejects it when
\* the unique name or the unique slug is held by another row.
RelationshipType_save(id, name) ==
    LET slug == RelationshipType_slug(id, name)
        clash == \/ name \in OtherValues(relationshipTypes, id, "name")
                 \/ slug \in OtherValues(relationshipTypes, id, "slug")
        row == [name |-> name, slug |-> slug]
    IN  /\ id \in 0..Len(relationshipTypes)
        /\ id = 0 => Len(relationshipTypes) < MaxTypes
        /\ IF clash
           THEN /\ relationshipTypes' = relationshipTypes
                /\ call' = [op |-> "RelationshipType.save", self |-> id,
                            name |-> name, error |-> "IntegrityError"]
           ELSE /\ relationshipTypes' =
                       IF id = 0 THEN Append(relationshipTypes, row)
                       ELSE [relationshipTypes EXCEPT ![id] = row]
                /\ call' = [op |-> "RelationshipType.save",
                            self |-> IF id = 0 THEN Len(relationshipTypes) + 1
                                     ELSE id,
                            name |-> name, error |-> "none"]
        /\ UNCHANGED <<now, settings, memberships, contacts, users,
                       registrations, outbox, contactRelationships>>

----------------------------------------------------------------------------
(* Contact, User, LoginRegistration                                        *)

ContactIds == {1, 2}
RegistrationIds == {1, 2}
NoUser == 0             \* Contact.user is null
DEFAULT_ACCOUNT_ACTIVATION_DAYS == 15

\* settings in which ACCOUNT_ACTIVATION_DAYS is not configured
SettingsWithoutDays == [DEFAULT_FROM_EMAIL |-> <<"x", "@", "x">>]

\* settings in which ACCOUNT_ACTIVATION_DAYS is configured
SettingsWithDays(days) ==
    [DEFAULT_FROM_EMAIL |-> <<"x", "@", "x">>,
     ACCOUNT_ACTIVATION_DAYS |-> days]
UnusablePassword == <<"!">>

\* The persons the contacts are drawn from
Persons ==
    { [first_name |-> <<"J">>, last_name |-> <<"x">>,
       email |-> <<"J", "@", "x">>],
      [first_name |-> <<"j">>, last_name |-> <<"x">>,
       email |-> <<"j", "@", "x">>] }

Passwords == { <<"a">> }

\* An account that was not created by a registration; its username is the
\* first suffixed slug of the persons' full name
ExistingUser ==
    [username |-> <<"j", "-", "x", "1">>, email |-> <<"a", "@", "x">>,
     password |-> <<"a">>, first_name |-> <<>>, last_name |-> <<>>,
     is_active |-> TRUE]

\* The activation-day counts a deployment configures in Spec
ConfiguredDays == {0, 1}

\* Contact.get_full_name()
get_full_name(c) == contacts[c].first_name \o <<" ">> \o contacts[c].last_name

\* getattr(settings, 'ACCOUNT_ACTIVATION_DAYS',
\*         DEFAULT_ACCOUNT_ACTIVATION_DAYS)
ActivationDays ==
    IF "ACCOUNT_ACTIVATION_DAYS" \in DOMAIN settings
    THEN settings.ACCOUNT_ACTIVATION_DAYS
    ELSE DEFAULT_ACCOUNT_ACTIVATION_DAYS

\* datetime.timedelta(days=n), in ticks
timedelta_days(n) == n * TicksPerDay

\* The expiry test with the boundary instant left out
has_expired_strictly_after(r) ==
    (registrations[r].date + timedelta_days(ActivationDays)) < now

\* LoginRegistration.has_expired(): the value returned
has_expired(r) ==
    (registrations[r].date + timedelta_days(ActivationDays)) <= now

\* User.objects.create_user(username, email, password): the new row.  The
\* manager stores the address stripped and lower-cased, and an unusable
\* password when none is given.
create_user(username, email, password) ==
    [username |-> username,
     email |-> Lower(Strip(email)),
     password |-> IF password # <<>> THEN password ELSE UnusablePassword,
     first_name |-> <<>>,
     last_name |-> <<>>,
     is_active |-> TRUE]

Usernames == {users[i].username : i \in DOMAIN users}


\* The steps of activate() on registration r, given the account row it
\* stores, the value it assigns to contact.user and the value it assigns to
\* self.activated.  User.username is unique: the database rejects the insert
\* when the username is taken, and the exception leaves activate() before
\* anything else is written.
activate_steps(r, password, user, link, activated) ==
    LET c == registrations[r].contact
    IN  /\ Len(users) < MaxUsers
        /\ IF user.username \in Usernames
           THEN /\ UNCHANGED <<users, contacts, registrations>>
                /\ call' = [op |-> "activate", self |-> r,
                            password |-> password, ret |-> NoUser,
                            error |-> "IntegrityError"]
           ELSE /\ users' = Append(users, user)
                /\ contacts' = [contacts EXCEPT ![c].user = link]
                /\ registrations' =
                       [registrations EXCEPT ![r].activated = activated]
                /\ call' = [op |-> "activate", self |-> r,
                            password |-> password, ret |-> contacts'[c].user,
                            error |-> "none"]
        /\ UNCHANGED <<now, settings, memberships, outbox, relationshipTypes,
                       contactRelationships>>

\* The account activate() creates for registration r: create_user under the
\* uniquified slug of the contact's full name, then first_name, last_name
\* and is_active set and saved
activate_user(r, password) ==
    LET c == registrations[r].contact
        username == slugify_uniquely(get_full_name(c), Usernames)
    IN  [create_user(username, contacts[c].email, password) EXCEPT
            !.first_name = contacts[c].first_name,
            !.last_name = contacts[c].last_name,
            !.is_active = TRUE]

\* activate() variant: the names are not copied to the account
activate_without_names(r, password) ==
    LET c == registrations[r].contact
        username == slugify_uniquely(get_full_name(c), Usernames)
    IN  activate_steps(r, password,
                       create_user(username, contacts[c].email, password),
                       Len(users) + 1, TRUE)

\* activate() variant: the flag is inverted instead of set
activate_toggles_flag(r, password) ==
    activate_steps(r, password, activate_user(r, password), Len(users) + 1,
                   ~registrations[r].activated)

\* activate() variant: the contact is not linked to the new account
activate_without_link(r, password) ==
    activate_steps(r, password, activate_user(r, password),
                   contacts[registrations[r].contact].user, TRUE)

\* activate() variant: an expired registration is refused
activate_checks_expiry(r, password) ==
    IF has_expired(r)
    THEN /\ Len(users) < MaxUsers
         /\ call' = [op |-> "activate", self |-> r, password |-> password,
                     ret |-> NoUser, error |-> "Expired"]
         /\ UNCHANGED <<now, settings, memberships, contacts, users,
                        registrations, outbox, relationshipTypes,
                        contactRelationships>>
    ELSE activate_steps(r, password, activate_user(r, password),
                        Len(users) + 1, TRUE)

\* LoginRegistration.activate(password) on registration r
activate(r, password) ==
    activate_steps(r, password, activate_user(r, password), Len(users) + 1,
                   TRUE)

\* The call has_expired() on registration r
has_expired_call(r) ==
    /\ call' = [op |-> "has_expired", self |-> r, ret |-> has_expired(r)]
    /\ UNCHANGED <<now, settings, memberships, contacts, users, registrations,
                   outbox, relationshipTypes, contactRelationships>>

\* send_mail(subject, message, from_email, recipient_list, fail_silently):
\* the number of messages delivered, or the error raised when delivery
\* fails and fail_silently is false
send_mail(delivered, fail_silently) ==
    IF delivered THEN [ret |-> 1, error |-> "none"]
    ELSE IF fail_silently THEN [ret |-> 0, error |-> "none"]
    ELSE [ret |-> 0, error |-> "SMTPException"]

\* prepare_email(send) on registration r with the given fail_silently
\* argument of send_mail; delivered tells whether the mail server takes the
\* message.  The templates are rendered from their contexts.
prepare_email_steps(r, send, delivered, fail_silently) ==
    LET c == registrations[r].contact
        expiration == ActivationDays
        subject == [template |-> "registration_email_subject.txt",
                    site |-> "current_site"]
        message == [template |-> "registration_email.txt",
                    activation_key |-> registrations[r].activation_key,
                    expiration_days |-> expiration,
                    site |-> "current_site",
                    contact |-> c]
        recipient_list == <<contacts[c].email>>
        sent == send_mail(delivered, fail_silently)
    IN  /\ IF send
           THEN /\ Len(outbox) < MaxMail
                /\ outbox' = Append(outbox,
                       [subject |-> subject, message |-> message,
                        from_email |-> settings.DEFAULT_FROM_EMAIL,
                        recipient_list |-> recipient_list,
                        delivered |-> delivered])
                /\ call' = [op |-> "prepare_email", self |-> r,
                            send |-> TRUE, ret |-> sent.ret,
                            error |-> sent.error]
           ELSE /\ ~delivered
                /\ outbox' = outbox
                /\ call' = [op |-> "prepare_email", self |-> r,
                            send |-> FALSE,
                            ret |-> <<subject, message, settings.DEFAULT_FROM_EMAIL,
                                      recipient_list>>,
                            error |-> "none"]
        /\ UNCHANGED <<now, settings, memberships, contacts, users,
                       registrations, relationshipTypes,
                       contactRelationships>>

\* prepare_email() variant: delivery failures are raised
prepare_email_fails_loudly(r, send, delivered) ==
    prepare_email_steps(r, send, delivered, FALSE)

\* LoginRegistration.prepare_email(send) on registration r
prepare_email(r, send, delivered) ==
    prepare_email_steps(r, send, delivered, TRUE)

\* Time passes, up to the clock reading limit
Tick(limit) ==
    /\ now < limit
    /\ now' = now + 1
    /\ call' = [op |-> "tick"]
    /\ UNCHANGED <<settings, memberships, contacts, users, registrations,
                   outbox, relationshipTypes, contactRelationships>>

----------------------------------------------------------------------------
(* PersonForm                                                              *)

\* The addresses submitted to the form
SubmittedEmails == { <<"j", "@", "x">>, <<"J", "@", "x">>, <<"a", "@", "x">> }

\* User.objects.filter(email=email).count()
CountUsersWithEmail(email) ==
    Cardinality({i \in DOMAIN users : users[i].email = email})

\* clean_email() variant: the instance's id is not looked at
clean_email_ignores_instance(instance_id, email) ==
    IF CountUsersWithEmail(email) > 0
    THEN [ret |-> <<>>, error |-> "ValidationError"]
    ELSE [ret |-> email, error |-> "none"]

\* PersonForm.clean_email() on a form whose instance has the given id (0:
\* no id) and whose cleaned_data['email'] is email: the value returned or
\* the error raised
clean_email(instance_id, email) ==
    IF instance_id = 0 /\ CountUsersWithEmail(email) > 0
    THEN [ret |-> <<>>, error |-> "ValidationError"]
    ELSE [ret |-> email, error |-> "none"]

\* The call clean_email()
clean_email_call(instance_id, email) ==
    /\ instance_id \in 0..Len(users)
    /\ call' = [op |-> "clean_email", instance |-> instance_id,
                email |-> email,
                ret |-> clean_email(instance_id, email).ret,
                error |-> clean_email(instance_id, email).error]
    /\ UNCHANGED <<now, settings, memberships, contacts, users, registrations,
                   outbox, relationshipTypes, contactRelationships>>

----------------------------------------------------------------------------
(* ContactRelationship                                                     *)

\* unique_together variant: no constraint
ContactRelationship_unconstrained(from_contact, to_contact) == FALSE

\* unique_together = ('from_contact', 'to_contact'): a row with this
\* ordered pair exists already
ContactRelationship_pair_taken(from_contact, to_contact) ==
    \E i \in DOMAIN contactRelationships :
        /\ contactRelationships[i].from_contact = from_contact
        /\ contactRelationships[i].to_contact = to_contact

\* A new ContactRelationship is saved
ContactRelationship_create(from_contact, to_contact) ==
    /\ Len(contactRelationships) < MaxRelationships
    /\ IF ContactRelationship_pair_taken(from_contact, to_contact)
       THEN /\ contactRelationships' = contactRelationships
            /\ call' = [op |-> "ContactRelationship.create",
                        from_contact |-> from_contact,
                        to_contact |-> to_contact,
                        error |-> "IntegrityError"]
       ELSE /\ contactRelationships' = Append(contactRelationships,
                   [from_contact |-> from_contact, to_contact |-> to_contact])
            /\ call' = [op |-> "ContactRelationship.create",
                        from_contact |-> from_contact,
                        to_contact |-> to_contact,
                        error |-> "none"]
    /\ UNCHANGED <<now, settings, memberships, contacts, users, registrations,
                   outbox, relationshipTypes>>

----------------------------------------------------------------------------
(* EmailForm                                                               *)

ProjectIds == {1, 2}
BusinessIds == {1}
None == 0               \* no project, no business

\* No project and no business has a user
NoMemberships ==
    [projects |-> [p \in ProjectIds |-> {}],
     businesses |-> [b \in BusinessIds |-> {}]]

\* The names the module binds at its top: those its import statements bring
\* in
FormsModuleNames ==
    {"datetime", "forms", "User", "us_forms", "transaction", "Q",
     "SimpleUserForm", "RequestForm", "RequestModelForm",
     "CheckboxSelectMultipleWithJS", "requires_kwarg", "caktus_widgets",
     "crm"}

\* The names a function of the module can use: the module's own and those it
\* imports
clean_to_names ==
    FormsModuleNames \cup {"PersonForm", "ProfileForm", "EmailForm"}

\* EmailForm.clean_to() when cleaned_data['to'] is `to`: User.objects.get
\* returns the user with that primary key; when there is none, the handler
\* of User.DoesNotExist evaluates _(...) and raises forms.ValidationError
\* on its value, and evaluating a name that is not bound raises NameError
clean_to(to) ==
    IF to \in DOMAIN users
    THEN [ret |-> to, error |-> "none"]
    ELSE IF "_" \in clean_to_names
         THEN [ret |-> NoUser, error |-> "ValidationError"]
         ELSE [ret |-> NoUser, error |-> "NameError"]

\* The call clean_to()
clean_to_call(to) ==
    /\ call' = [op |-> "clean_to", to |-> to,
                ret |-> clean_to(to).ret, error |-> clean_to(to).error]
    /\ UNCHANGED <<now, settings, memberships, contacts, users, registrations,
                   outbox, relationshipTypes, contactRelationships>>

\* No Q object
NoSearch == [field |-> "none"]

\* EmailForm.__init__ variant: the business is looked at before the project
EmailForm_search_business_first(project, business) ==
    IF business # None THEN [field |-> "businesses", value |-> business]
    ELSE IF project # None THEN [field |-> "projects", value |-> project]
    ELSE NoSearch

\* The search EmailForm.__init__ builds from its project and business
\* keyword arguments (None when absent): a project set makes the business
\* ignored
EmailForm_search(project, business) ==
    IF project # None THEN [field |-> "projects", value |-> project]
    ELSE IF business # None THEN [field |-> "businesses", value |-> business]
    ELSE NoSearch

\* The ids of User.objects.filter(search): the users related to the project
\* (User.projects) or to the business (User.businesses)
FilterUsers(search) ==
    IF search.field = "projects" THEN memberships.projects[search.value]
    ELSE memberships.businesses[search.value]

\* The rows of a query over the ids, in the order of the ids
RECURSIVE Rows(_)
Rows(ids) ==
    IF ids = {} THEN <<>>
    ELSE LET first == CHOOSE i \in ids : \A j \in ids : i <= j
         IN  <<first>> \o Rows(ids \ {first})

\* User.get_full_name(): first and last name with a space between, stripped
User_get_full_name(id) ==
    Strip(users[id].first_name \o <<" ">> \o users[id].last_name)

\* The choice appended for a user: (user.id, "%s (%s)" % (full name, email))
Choice(id) ==
    <<id, User_get_full_name(id) \o <<" ", "(">> \o users[id].email
              \o <<")">>>>

\* The choices of the form's `to` field after EmailForm.__init__: those of
\* forms.ChoiceField(), none, unless there is a search; then one per user
\* the search finds
EmailForm_choices(project, business) ==
    LET search == EmailForm_search(project, business)
    IN  IF search # NoSearch
        THEN [k \in DOMAIN Rows(FilterUsers(search)) |->
                  Choice(Rows(FilterUsers(search))[k])]
        ELSE <<>>

\* An EmailForm is constructed
EmailForm_init(project, business) ==
    /\ call' = [op |-> "EmailForm.__init__", project |-> project,
                business |-> business,
                choices |-> EmailForm_choices(project, business)]
    /\ UNCHANGED <<now, settings, memberships, contacts, users, registrations,
                   outbox, relationshipTypes, contactRelationships>>

----------------------------------------------------------------------------
(* Specifications                                                          *)

\* The dates registrations were created on
MaxDate == 1
RegistrationDates == 0..MaxDate

\* The tables hold the contacts and their pending registrations; no contact
\* has an account yet
InitTables ==
    /\ contacts \in [ContactIds ->
           {[first_name |-> p.first_name, last_name |-> p.last_name,
             email |-> p.email, user |-> NoUser] : p \in Persons}]
    /\ users \in {<<>>, <<ExistingUser>>}
    /\ registrations \in [RegistrationIds ->
           [contact : ContactIds, date : RegistrationDates,
            activation_key : {"key"}, activated : {FALSE}]]
    /\ registrations[1].contact = 1
    /\ registrations[1].date = 0
    /\ outbox = <<>>
    /\ relationshipTypes = <<>>
    /\ contactRelationships = <<>>
    /\ memberships = NoMemberships
    /\ call = NoCall

Init ==
    /\ InitTables
    /\ now = MaxDate
    /\ settings \in {SettingsWithoutDays}
                       \cup {SettingsWithDays(d) : d \in ConfiguredDays}

Next ==
    \/ Tick(MaxNow)
    \/ \E r \in RegistrationIds, password \in Passwords : activate(r, password)
    \/ \E r \in RegistrationIds : has_expired_call(r)
    \/ \E r \in RegistrationIds, send \in BOOLEAN, delivered \in BOOLEAN :
           prepare_email(r, send, delivered)

Spec == Init /\ [][Next]_vars

\* has_expired() over registration dates, clock readings and settings
ExpiryDays == {0, 1, 14, 15, 16}

InitExpiry ==
    /\ InitTables
    /\ contacts[1] = contacts[2]
    /\ users = <<>>
    /\ registrations[2].contact = 1
    /\ now = 0
    /\ settings \in {SettingsWithoutDays}
                       \cup {SettingsWithDays(d) : d \in ExpiryDays}

NextExpiry ==
    \/ Tick(MaxClockDays * TicksPerDay)
    \/ \E r \in RegistrationIds : has_expired_call(r)

SpecExpiry == InitExpiry /\ [][NextExpiry]_vars

\* RelationshipType rows are created and saved again
InitSlug ==
    /\ InitTables
    /\ contacts[1] = contacts[2]
    /\ users = <<>>
    /\ registrations[2] = registrations[1]
    /\ now = 0
    /\ settings = SettingsWithoutDays

NextSlug ==
    \E id \in 0..MaxTypes, name \in TypeNames : RelationshipType_save(id, name)

SpecSlug == InitSlug /\ [][NextSlug]_vars

\* ContactRelationship rows are created
NextRelationship ==
    \E from_contact \in ContactIds, to_contact \in ContactIds :
        ContactRelationship_create(from_contact, to_contact)

SpecRelationship == InitSlug /\ [][NextRelationship]_vars

\* The person form is validated while accounts are being created
NextForm ==
    \/ \E r \in RegistrationIds, password \in Passwords : activate(r, password)
    \/ \E id \in 0..MaxUsers, email \in SubmittedEmails :
           clean_email_call(id, email)

SpecForm == Init /\ [][NextForm]_vars

\* The account with id i, for the e-mail form
Account(i) ==
    [username |-> <<"j", "-", "x">> \o Decimal(i),
     email |-> <<"j">> \o Decimal(i) \o <<"@", "x">>,
     password |-> <<"a">>,
     first_name |-> IF i % 2 = 1 THEN <<"J">> ELSE <<>>,
     last_name |-> <<"x">>,
     is_active |-> TRUE]

\* E-mail forms are constructed and their recipient validated, over the
\* accounts that exist and their memberships of projects and businesses
InitEmailForm ==
    /\ contacts \in [ContactIds ->
           {[first_name |-> p.first_name, last_name |-> p.last_name,
             email |-> p.email, user |-> NoUser] : p \in Persons}]
    /\ contacts[1] = contacts[2]
    /\ registrations = [r \in RegistrationIds |->
           [contact |-> 1, date |-> 0, activation_key |-> "key",
            activated |-> FALSE]]
    /\ outbox = <<>>
    /\ relationshipTypes = <<>>
    /\ contactRelationships = <<>>
    /\ call = NoCall
    /\ now = 0
    /\ settings = SettingsWithoutDays
    /\ \E n \in 0..MaxUsers :
           /\ users = [i \in 1..n |-> Account(i)]
           /\ memberships \in
                  [projects : [ProjectIds -> SUBSET (1..n)],
                   businesses : [BusinessIds -> SUBSET (1..n)]]

NextEmailForm ==
    \/ \E project \in ProjectIds \cup {None},
          business \in BusinessIds \cup {None} :
           EmailForm_init(project, business)
    \/ \E to \in 0..(MaxUsers + 1) : clean_to_call(to)

SpecEmailForm == InitEmailForm /\ [][NextEmailForm]_vars

----------------------------------------------------------------------------
(* Properties                                                              *)

\* The contact of registration r
ContactOf(r) == registrations[r].contact

\* The age of registration r, in ticks
Age(r) == now - registrations[r].date

\* C1, as stated: has_expired() returns true exactly when now - date is
\* strictly greater than the activation-day count, so it returns false at
\* the boundary now = date + activation_days.
C1_ExpiredIffStrictlyOlder ==
    call.op = "has_expired" =>
        (call.ret <=> (Age(call.self) > timedelta_days(ActivationDays)))

\* C1, amended: has_expired() returns true exactly when now - date is at
\* least the activation-day count, so it returns true at the boundary; with
\* 15 days a registration dated day 0 is not expired on day 14 and is
\* expired on day 16.
C1_ExpiredIffAtLeastAsOld ==
    call.op = "has_expired" =>
        /\ call.ret <=> (Age(call.self) >= timedelta_days(ActivationDays))
        /\ Age(call.self) = timedelta_days(ActivationDays) => call.ret
        /\ ( /\ ActivationDays = 15
             /\ registrations[call.self].date = 0
             /\ now = timedelta_days(14) ) => ~call.ret
        /\ ( /\ ActivationDays = 15
             /\ registrations[call.self].date = 0
             /\ now = timedelta_days(16) ) => call.ret

\* has_expired() was called at the exact boundary, with the default day count
C1_Witness ==
    /\ call.op = "has_expired"
    /\ "ACCOUNT_ACTIVATION_DAYS" \notin DOMAIN settings
    /\ Age(call.self) = timedelta_days(DEFAULT_ACCOUNT_ACTIVATION_DAYS)
    /\ call.ret

\* What activate() on the pending registration r does, but for the e-mail
\* address of the account: one account is added, it is active and bears the
\* contact's names, the contact is linked to it, the registration is
\* activated and the account is returned
ActivatesOnce(r) ==
    LET c == ContactOf(r)
        id == Len(users) + 1
    IN  /\ call'.error = "none"
        /\ registrations' = [registrations EXCEPT ![r].activated = TRUE]
        /\ Len(users') = id
        /\ SubSeq(users', 1, Len(users)) = users
        /\ users'[id].is_active
        /\ users'[id].first_name = contacts[c].first_name
        /\ users'[id].last_name = contacts[c].last_name
        /\ contacts' = [contacts EXCEPT ![c].user = id]
        /\ call'.ret = id

\* activate() is called on r in this step
ActivateStep(r) == call'.op = "activate" /\ call'.self = r

C3_ActivateOnlyPendingNotExpired ==
    [][\A r \in RegistrationIds :
        (ActivateStep(r) /\ (registrations[r].activated \/ has_expired(r)))
            => (users' = users /\ contacts' = contacts)]_vars

\* C4: once activated is true it stays true, whatever is called later and
\* however much time passes.
C4_ActivatedIsIrreversible ==
    [][\A r \in RegistrationIds :
        registrations[r].activated => registrations'[r].activated]_vars

\* An activated registration is activated again, after time has passed
C4_Witness ==
    /\ call.op = "activate"
    /\ Len(users) = 2
    /\ registrations[call.self].activated
    /\ \E r \in RegistrationIds : ~registrations[r].activated
    /\ now > MaxDate

\* C5: activate() on a pending registration that has expired does what it
\* does on any pending registration, and reports no error.
C5_ActivateIgnoresExpiry ==
    [][\A r \in RegistrationIds :
        (ActivateStep(r) /\ ~registrations[r].activated /\ has_expired(r))
            => ActivatesOnce(r)]_vars

\* The first activation was that of an expired registration
C5_Witness ==
    /\ call.op = "activate"
    /\ call.error = "none"
    /\ Len(users) = 1
    /\ has_expired(call.self)
    /\ registrations[call.self].activated


\* C6: the stored RelationshipType rows have pairwise distinct slugs, and a
\* save() under a name no other row bears stores the row with a slug that
\* is derived from the name and differs from every other row's slug, the
\* saved row's own former slug not counting as a collision.
C6_SlugsPairwiseDistinct ==
    /\ [](\A i, j \in DOMAIN relationshipTypes :
            i # j => relationshipTypes[i].slug # relationshipTypes[j].slug)
    /\ [][( /\ call'.op = "RelationshipType.save"
            /\ call'.name \notin
                   OtherValues(relationshipTypes, call'.self, "name") ) =>
            LET id == call'.self
                slug == relationshipTypes'[id].slug
            IN  /\ call'.error = "none"
                /\ relationshipTypes'[id].name = call'.name
                /\ StartsWith(slug, slugify(call'.name))
                /\ slug \notin OtherValues(relationshipTypes', id, "slug")
                /\ \A i \in DOMAIN relationshipTypes \ {id} :
                       relationshipTypes'[i] = relationshipTypes[i]
                /\ (id \in DOMAIN relationshipTypes
                    /\ slugify(call'.name) = relationshipTypes[id].slug)
                       => slug = relationshipTypes[id].slug]_vars

\* A row whose name slugifies to another row's slug was saved again
C6_Witness ==
    /\ call.op = "RelationshipType.save"
    /\ call.error = "none"
    /\ call.self < Len(relationshipTypes)
    /\ \E j \in DOMAIN relationshipTypes \ {call.self} :
           /\ slugify(relationshipTypes[j].name) = slugify(call.name)
           /\ relationshipTypes[j].slug = slugify(call.name)
    /\ relationshipTypes[call.self].slug # slugify(call.name)

\* C7: every contact with an activated registration is linked to an
\* account, and no account is linked to two contacts.
C7_ActivatedContactsLinked ==
    /\ \A r \in RegistrationIds :
           registrations[r].activated =>
               contacts[ContactOf(r)].user \in DOMAIN users
    /\ \A c, d \in ContactIds :
           (c # d /\ contacts[c].user # NoUser) =>
               contacts[c].user # contacts[d].user

\* Two registrations of one contact are both activated; the contact is
\* linked to the later account
C7_Witness ==
    /\ \A r \in RegistrationIds : registrations[r].activated
    /\ ContactOf(1) = ContactOf(2)
    /\ Len(users) = 2
    /\ contacts[ContactOf(1)].user = 2

\* C8: no two ContactRelationship rows bear the same (from_contact,
\* to_contact); creating a row with a pair that is taken fails and changes
\* nothing; creating one with a pair that is free succeeds, also when the
\* reversed pair is taken.
C8_PairUnique ==
    /\ [](\A i, j \in DOMAIN contactRelationships :
            (/\ contactRelationships[i].from_contact =
                    contactRelationships[j].from_contact
             /\ contactRelationships[i].to_contact =
                    contactRelationships[j].to_contact) => i = j)
    /\ [][call'.op = "ContactRelationship.create" =>
            LET pair == [from_contact |-> call'.from_contact,
                         to_contact |-> call'.to_contact]
                taken == \E i \in DOMAIN contactRelationships :
                             contactRelationships[i] = pair
            IN  IF taken
                THEN /\ call'.error = "IntegrityError"
                     /\ contactRelationships' = contactRelationships
                ELSE /\ call'.error = "none"
                     /\ contactRelationships' =
                            Append(contactRelationships, pair)]_vars

\* A pair and its reverse are stored, and a second row for one of them was
\* refused
C8_Witness ==
    /\ call.op = "ContactRelationship.create"
    /\ call.error = "IntegrityError"
    /\ call.from_contact # call.to_contact
    /\ \E i, j \in DOMAIN contactRelationships :
           /\ contactRelationships[i].from_contact = call.from_contact
           /\ contactRelationships[i].to_contact = call.to_contact
           /\ contactRelationships[j].from_contact = call.to_contact
           /\ contactRelationships[j].to_contact = call.from_contact

\* Some account other than the one with this id has the address
OtherUserHasEmail(id, email) ==
    \E i \in DOMAIN users \ {id} : users[i].email = email

\* C9: clean_email on a form without an instance id fails with a validation
\* error exactly when some account has the submitted address; on a form
\* with an instance id it returns the address unchanged, whoever shares it.
C9_CleanEmail ==
    call.op = "clean_email" =>
        IF call.instance = 0
        THEN /\ (call.error = "ValidationError") <=>
                    OtherUserHasEmail(0, call.email)
             /\ (call.error # "ValidationError") =>
                    (call.error = "none" /\ call.ret = call.email)
        ELSE call.error = "none" /\ call.ret = call.email

\* An existing person was edited to an address another account has
C9_Witness ==
    /\ call.op = "clean_email"
    /\ call.instance # 0
    /\ OtherUserHasEmail(call.instance, call.email)
    /\ call.error = "none"

\* The day count the notification states
ConfiguredOrDefaultDays ==
    IF "ACCOUNT_ACTIVATION_DAYS" \in DOMAIN settings
    THEN settings.ACCOUNT_ACTIVATION_DAYS
    ELSE 15

\* C10: prepare_email changes no registration, contact or account and
\* reports no error; with send it hands send_mail one message addressed to
\* the contact's e-mail alone, delivered or not; without send it hands over
\* nothing and returns (subject, message, sender, [contact e-mail]); the
\* message states the configured day count, or 15, which is the count
\* has_expired() goes by.
C10_PrepareEmail ==
    [][call'.op = "prepare_email" =>
        LET r == call'.self
            to == <<contacts[ContactOf(r)].email>>
        IN  /\ registrations' = registrations
            /\ contacts' = contacts
            /\ users' = users
            /\ call'.error = "none"
            /\ has_expired(r) <=>
                   (registrations[r].date
                        + ConfiguredOrDefaultDays * TicksPerDay <= now)
            /\ IF call'.send
               THEN /\ Len(outbox') = Len(outbox) + 1
                    /\ SubSeq(outbox', 1, Len(outbox)) = outbox
                    /\ outbox'[Len(outbox')].recipient_list = to
                    /\ outbox'[Len(outbox')].message.expiration_days =
                           ConfiguredOrDefaultDays
                    /\ outbox'[Len(outbox')].message.activation_key =
                           registrations[r].activation_key
               ELSE /\ outbox' = outbox
                    /\ Len(call'.ret) = 4
                    /\ call'.ret[2].expiration_days = ConfiguredOrDefaultDays
                    /\ call'.ret[3] = settings.DEFAULT_FROM_EMAIL
                    /\ call'.ret[4] = to]_vars

\* A message was handed to send_mail, was not delivered, and the call
\* returned without an error
C10_Witness ==
    /\ call.op = "prepare_email"
    /\ call.send
    /\ call.error = "none"
    /\ Len(outbox) = 1
    /\ ~outbox[1].delivered
    /\ "ACCOUNT_ACTIVATION_DAYS" \in DOMAIN settings


\* C11: clean_to on a recipient id that identifies no user ends in a
\* ValidationError; on the id of a user it returns that user.
C11_CleanTo ==
    call.op = "clean_to" =>
        IF call.to \in DOMAIN users
        THEN call.error = "none" /\ call.ret = call.to
        ELSE call.error = "ValidationError"

\* The ids among the choices
ChoiceIds(choices) == {choices[k][1] : k \in DOMAIN choices}

\* C12: with a project the recipient choices are the users of that project,
\* whatever business is given; with a business alone they are the users of
\* that business; with neither there is no choice.
C12_RecipientChoices ==
    call.op = "EmailForm.__init__" =>
        /\ Len(call.choices) = Cardinality(ChoiceIds(call.choices))
        /\ ChoiceIds(call.choices) \subseteq DOMAIN users
        /\ call.project # None =>
               ChoiceIds(call.choices) = memberships.projects[call.project]
        /\ (call.project = None /\ call.business # None) =>
               ChoiceIds(call.choices) =
                   memberships.businesses[call.business]
        /\ (call.project = None /\ call.business = None) =>
               call.choices = <<>>

\* A form was constructed with a project and a business that have
\* different users
C12_Witness ==
    /\ call.op = "EmailForm.__init__"
    /\ call.project # None
    /\ call.business # None
    /\ memberships.projects[call.project] # {}
    /\ memberships.businesses[call.business] # {}
    /\ memberships.projects[call.project]
           # memberships.businesses[call.business]
    /\ Len(call.choices) = Cardinality(memberships.projects[call.project])

====
